---- MODULE Spec2Model ----
(***************************************************************************)
(* Model of src/ec2drv/csv2c.py: the converter that turns the devices csv  *)
(* table into the C array "DEVICE devices[]".                              *)
(*                                                                         *)
(* Text is modelled character by character: a string is a sequence of      *)
(* one-character strings, a csv row is a sequence of such strings, and the *)
(* output file is the sequence of the strings handed to cfile.writelines,  *)
(* in call order.  The bytes of the file are their concatenation.          *)
(* The fields of the explored rows hold no comma, quote or line break, so  *)
(* csv.reader's splitting is not modelled: a row is given by its fields.   *)
(***************************************************************************)
EXTENDS Integers, Sequences, FiniteSets, TLC

\* Longest input file (in csv rows) that is explored.
MaxRows == 3

----------------------------------------------------------------------------
(* Values of the command line and of the file system.                      *)

\* optparse leaves an option that was not given at None; a given option is
\* held as <<text>>.
None == <<>>

Given(text) == <<text>>

InPath == <<"d", ".", "c", "s", "v">>

OutPath == <<"d", ".", "c">>

(* The csv rows the explored input files are made of (row[k] of the code   *)
(* is field k+1 here).                                                     *)

\* 23 fields, empty last column.
RowA ==
    <<<<"A">>,
      <<"1">>,
      <<"2">>,
      <<"3">>,
      <<"4">>,
      <<"5">>,
      <<"6">>,
      <<"7">>,
      <<"8">>,
      <<"9">>,
      <<"1", "0">>,
      <<"1", "1">>,
      <<"1", "2">>,
      <<"1", "3">>,
      <<"1", "4">>,
      <<"1", "5">>,
      <<"1", "6">>,
      <<"1", "7">>,
      <<"1", "8">>,
      <<"1", "9">>,
      <<"2", "0">>,
      <<"2", "1">>,
      <<>>>>

\* 24 fields, other values in every column, non-empty column of index 22.
RowB ==
    <<<<"B", "1">>,
      <<"0", "x", "A", "1">>,
      <<"0", "x", "A", "2">>,
      <<"0", "x", "A", "3">>,
      <<"0", "x", "A", "4">>,
      <<"0", "x", "A", "5">>,
      <<"0", "x", "A", "6">>,
      <<"0", "x", "A", "7">>,
      <<"0", "x", "A", "8">>,
      <<"0", "x", "A", "9">>,
      <<"0", "x", "A", "A">>,
      <<"0", "x", "A", "B">>,
      <<"0", "x", "A", "C">>,
      <<"0", "x", "A", "D">>,
      <<"0", "x", "A", "E">>,
      <<"0", "x", "A", "F">>,
      <<"0", "x", "B", "0">>,
      <<"0", "x", "B", "1">>,
      <<"0", "x", "B", "2">>,
      <<"0", "x", "B", "3">>,
      <<"0", "x", "B", "4">>,
      <<"0", "x", "B", "5">>,
      <<"c", "2">>,
      <<"n", "o", "t", "e">>>>

\* A row marked for exclusion, 23 fields.
RowHash ==
    <<<<"#", "S">>,
      <<"4", "1">>,
      <<"4", "2">>,
      <<"4", "3">>,
      <<"4", "4">>,
      <<"4", "5">>,
      <<"4", "6">>,
      <<"4", "7">>,
      <<"4", "8">>,
      <<"4", "9">>,
      <<"5", "0">>,
      <<"5", "1">>,
      <<"5", "2">>,
      <<"5", "3">>,
      <<"5", "4">>,
      <<"5", "5">>,
      <<"5", "6">>,
      <<"5", "7">>,
      <<"5", "8">>,
      <<"5", "9">>,
      <<"6", "0">>,
      <<"6", "1">>,
      <<"n">>>>

\* A row marked for exclusion that holds one field only.
RowHashShort ==
    <<<<"#", "x">>>>

\* 22 fields: row[22] does not exist.
RowShort ==
    <<<<"C">>,
      <<"7", "1">>,
      <<"7", "2">>,
      <<"7", "3">>,
      <<"7", "4">>,
      <<"7", "5">>,
      <<"7", "6">>,
      <<"7", "7">>,
      <<"7", "8">>,
      <<"7", "9">>,
      <<"8", "0">>,
      <<"8", "1">>,
      <<"8", "2">>,
      <<"8", "3">>,
      <<"8", "4">>,
      <<"8", "5">>,
      <<"8", "6">>,
      <<"8", "7">>,
      <<"8", "8">>,
      <<"8", "9">>,
      <<"9", "0">>,
      <<"9", "1">>>>

\* What csv.reader yields for a blank line.
RowBlank == <<>>

\* 23 fields, the first one empty.
RowNoName ==
    <<<<>>,
      <<"1">>,
      <<"2">>,
      <<"3">>,
      <<"4">>,
      <<"5">>,
      <<"6">>,
      <<"7">>,
      <<"8">>,
      <<"9">>,
      <<"1", "0">>,
      <<"1", "1">>,
      <<"1", "2">>,
      <<"1", "3">>,
      <<"1", "4">>,
      <<"1", "5">>,
      <<"1", "6">>,
      <<"1", "7">>,
      <<"1", "8">>,
      <<"1", "9">>,
      <<"2", "0">>,
      <<"2", "1">>,
      <<"1">>>>

RowKinds == {RowA, RowB, RowHash, RowHashShort, RowShort, RowBlank, RowNoName}

RECURSIVE SeqsUpTo(_, _)
SeqsUpTo(S, n) ==
    IF n = 0 THEN {<<>>}
    ELSE LET shorter == SeqsUpTo(S, n - 1)
         IN  shorter \cup {Append(s, x) : s \in shorter, x \in S}

----------------------------------------------------------------------------
(* The literal text of the program.                                        *)

Banner(infile) ==
    
    <<"/", "/", "/", "/", "/", "/", "/", "/", "/", "/", "/", "/", "/", "/", "/", "/", "/", "/",
      "/", "/", "/", "/", "/", "/", "/", "/", "/", "/", "/", "/", "/", "/", "/", "/", "/", "/",
      "/", "/", "/", "/", "/", "/", "/", "/", "/", "/", "/", "/", "/", "/", "/", "/", "/", "/",
      "/", "/", "/", "/", "/", "/", "/", "/", "/", "/", "/", "/", "/", "/", "/", "/", "/", "/",
      "/", "/", "/", "/", "/", "/", "/", "/", "/", "/", "/", "/", "/", "/", "/", "/", "/", "/",
      "/", "/", "/", "/", "/", "\n">>
    \o <<"/", "/", "\n">>
    \o 
    <<"/", "/", "\t", "\t", "*", "*", "*", "*", " ", "D", "O", " ", "N", "O", "T", " ", "E",
      "D", "I", "T", " ", "*", "*", "*", "\n">>
    \o 
    <<"/", "/", " ", "A", "u", "t", "o", "m", "a", "t", "i", "c", "a", "l", "l", "y", " ", "g",
      "e", "n", "e", "r", "a", "t", "e", "d", " ", "f", "r", "o", "m", " ">> \o infile \o <<"\n">>
    \o 
    <<"/", "/", " ", "Y", "o", "u", " ", "s", "h", "o", "u", "l", "d", " ", "e", "d", "i", "t",
      " ", "t", "h", "e", " ", "o", "d", "s", " ", "f", "i", "l", "e", " ", "u", "s", "e", "d",
      " ", "t", "o", " ", "g", "e", "n", "e", "r", "a", "t", "e", " ", "t", "h", "e", " ", "a",
      "b", "o", "v", "e", " ", "c", "s", "v", " ", "f", "i", "l", "e", " ", "f", "o", "r", " ",
      "p", "e", "r", "m", "i", "n", "a", "n", "t", " ", "c", "h", "a", "n", "g", "e", "s",
      "\n">>
    \o <<"/", "/", "\n">>
    \o 
    <<"/", "/", "/", "/", "/", "/", "/", "/", "/", "/", "/", "/", "/", "/", "/", "/", "/", "/",
      "/", "/", "/", "/", "/", "/", "/", "/", "/", "/", "/", "/", "/", "/", "/", "/", "/", "/",
      "/", "/", "/", "/", "/", "/", "/", "/", "/", "/", "/", "/", "/", "/", "/", "/", "/", "/",
      "/", "/", "/", "/", "/", "/", "/", "/", "/", "/", "/", "/", "/", "/", "/", "/", "/", "/",
      "/", "/", "/", "/", "/", "/", "/", "/", "/", "/", "/", "/", "/", "/", "/", "/", "/", "/",
      "/", "/", "/", "/", "\n", "\n">>

IncludeLine == 
    <<"#", "i", "n", "c", "l", "u", "d", "e", " ", "\"", "d", "e", "v", "i", "c", "e", "s",
      ".", "h", "\"", "\n">>

DeclLine == 
    <<"D", "E", "V", "I", "C", "E", " ", "d", "e", "v", "i", "c", "e", "s", "[", "]", " ", "=",
      "\n">>

\* The sentinel written without the separating comma.
SentinelNoComma == <<"\n", "\t", "{", "0", "}", "}", "\n">>

SentinelText == <<",", "\n", "\t", "{", "0", "}", "}", "\n">>

TerminatorText == <<";", "\n">>

CloserText == <<"\t", "}">>

\* The counter compared one off.
OpenerOffByOne(i) == IF i = 1 THEN <<"\t", "{", "{", "\n">> ELSE <<",", "\n", "\t", "{", "\n">>

Opener(i) == IF i = 0 THEN <<"\t", "{", "{", "\n">> ELSE <<",", "\n", "\t", "{", "\n">>

\* row[k] of the code.
RowAt(row, k) == row[k + 1]

\* row[k] raises IndexError.
IndexFault(row, k) == k >= Len(row)

\* The column read for the leading comment (and again for the last data line).
CommentIdx == 22

\* Line 38 evaluates row[0][0]: it needs a first field with a first character.
ExclusionTestFaults(row) == IndexFault(row, 0) \/ IndexFault(RowAt(row, 0), 0)

\* The whole first field compared with the marker, not its first character.
ExcludedWholeField(row) == RowAt(row, 0) = <<"#">>

\* No row is skipped.
ExcludedNever(row) == FALSE

\* Line 38, negated: the row is skipped.
Excluded(row) == RowAt(row, 0)[1] = "#"

\* The comment line written whatever the column holds.
HasCommentAlways(row) == TRUE

HasComment(row) == RowAt(row, CommentIdx) # <<>>

CommentLine(row) == <<"\t", "\t", "/", "/", " ">> \o RowAt(row, CommentIdx) \o <<"\n">>

NameLine(row) == <<"\t", "\t", "\"">> \o RowAt(row, 0) \o <<"\"", ",", "\t", "/", "/", " ", "D", "e", "v", "i", "c", "e", " ", "N", "a", "m", "e", "\n">>

\* The columns taken in a row, none left out.
DataIdxContiguous == <<1, 2, 3, 4, 5, 6, 7, 8, 9, 10, 11, 12, 13, 14, 15, 16, 17, 18, 19, 20, 21>>

\* The index of the column each of lines 46..66 writes.
DataIdx == <<1, 2, 3, 5, 6, 7, 8, 9, 10, 11, 12, 13, 14, 15, 16, 17, 18, 19, 20, 21, 22>>

\* The text each of lines 46..66 writes after the column's value.
DataLabel == <<
    
    <<",", "\t", "\t", "\t", "/", "/", " ", "D", "e", "v", "i", "c", "e", " ", "i", "d", " ",
      "(", "F", "a", "m", "i", "l", "y", ")", "\n">>,
    
    <<",", "\t", "\t", "\t", "/", "/", " ", "D", "e", "v", "i", "c", "e", " ", "u", "n", "i",
      "q", "u", "e", " ", "i", "d", "\n">>,
    
    <<",", "\t", "\t", "\t", "/", "/", " ", "D", "e", "v", "i", "c", "e", " ", "r", "e", "v",
      "i", "s", "i", "o", "n", " ", "(", "-", "1", " ", "=", " ", "a", "n", "y", " ", "m", "a",
      "t", "c", "h", "\n">>,
    
    <<",", "\t", "\t", "\t", "/", "/", " ", "F", "l", "a", "s", "h", " ", "S", "i", "z", "e",
      " ", "(", "M", "a", "r", "k", "e", "t", "i", "n", "g", " ", "n", "u", "m", "b", "e", "r",
      ")", "\n">>,
    
    <<",", "\t", "\t", "\t", "/", "/", " ", "F", "l", "a", "s", "h", " ", "S", "e", "c", "t",
      "o", "r", " ", "S", "i", "z", "e", "\n">>,
    <<",", "\t", "\t", "\t", "/", "/", " ", "X", "R", "A", "M", " ", "S", "i", "z", "e", "\n">>,
    
    <<",", "\t", "\t", "\t", "/", "/", " ", "H", "a", "s", " ", "E", "x", "t", "e", "r", "n",
      "a", "l", " ", "B", "u", "s", "\n">>,
    
    <<",", "\t", "\t", "\t", "/", "/", " ", "T", "e", "s", "t", "e", "d", " ", "b", "y", " ",
      "e", "c", "2", "d", "r", "v", " ", "d", "e", "v", "e", "l", "o", "p", "e", "r", "s",
      "\n">>,
    
    <<",", "\t", "\t", "\t", "/", "/", " ", "F", "l", "a", "s", "h", " ", "l", "o", "c", "k",
      " ", "t", "y", "p", "e", "\n">>,
    <<",", "\t", "\t", "\t", "/", "/", " ", "R", "e", "a", "d", " ", "l", "o", "c", "k", "\n">>,
    <<",", "\t", "\t", "\t", "/", "/", " ", "W", "r", "i", "t", "e", " ", "l", "o", "c", "k", "\n">>,
    
    <<",", "\t", "\t", "\t", "/", "/", " ", "S", "i", "n", "g", "l", "e", " ", "l", "o", "c",
      "k", "\n">>,
    
    <<",", "\t", "\t", "\t", "/", "/", " ", "R", "e", "s", "e", "r", "v", "e", "d", " ", "F",
      "l", "a", "s", "h", " ", "b", "o", "t", "t", "o", "m", " ", "a", "d", "d", "r", "\n">>,
    
    <<",", "\t", "\t", "\t", "/", "/", " ", "R", "e", "s", "e", "r", "v", "e", "d", " ", "F",
      "l", "a", "s", "h", " ", "t", "o", "p", " ", "a", "d", "d", "r", "\n">>,
    
    <<",", "\t", "\t", "\t", "/", "/", " ", "H", "a", "s", " ", "f", "l", "a", "s", "h", " ",
      "s", "c", "r", "a", "t", "c", "h", "p", "a", "d", " ", "(", "S", "F", "L", "E", ")",
      "\n">>,
    
    <<",", "\t", "\t", "\t", "/", "/", " ", "S", "c", "r", "a", "t", "c", "h", " ", "s", "t",
      "a", "r", "t", " ", "a", "d", "d", "r", " ", "(", "S", "F", "L", "E", "=", "1", ")",
      "\n">>,
    
    <<",", "\t", "\t", "\t", "/", "/", " ", "S", "c", "r", "a", "t", "c", "h", "p", "a", "d",
      " ", "l", "e", "n", "g", "t", "h", " ", "(", "b", "y", "t", "e", "s", ")", "\n">>,
    
    <<",", "\t", "\t", "\t", "/", "/", " ", "S", "c", "r", "a", "t", "c", "h", "p", "a", "d",
      " ", "s", "e", "c", "t", "o", "r", " ", "s", "i", "z", "e", " ", "(", "b", "y", "t", "e",
      "s", ")", "\n">>,
    
    <<",", "\t", "\t", "\t", "/", "/", " ", "H", "a", "s", " ", "P", "a", "g", "e", "s", " ",
      "S", "F", "R", " ", "r", "e", "g", "i", "s", "t", "e", "r", "s", "\n">>,
    
    <<",", "\t", "\t", "\t", "/", "/", " ", "U", "S", "B", " ", "F", "I", "F", "O", " ", "s",
      "i", "z", "e", "\n">>,
    
    <<",", "\t", "\t", "\t", "/", "/", " ", "D", "e", "b", "u", "g", " ", "M", "o", "d", "e",
      " ", "(", "J", "T", "A", "G", " ", "/", "C", "2", ")", "\n">> >>

DataLine(row, k) == <<"\t", "\t">> \o RowAt(row, DataIdx[k]) \o DataLabel[k]

\* Lines 39..67 for a row that has its 23 columns: the writelines calls in order.
RecordWrites(row, i) ==
    <<Opener(i)>>
    \o (IF HasComment(row) THEN <<CommentLine(row)>> ELSE <<>>)
    \o <<NameLine(row)>>
    \o [k \in 1..Len(DataIdx) |-> DataLine(row, k)]
    \o <<CloserText>>

\* The loop body with a row it cannot index passed over instead of raising.
RowStepSkipsShort(row, i) ==
    IF ExclusionTestFaults(row) \/ Excluded(row) \/ IndexFault(row, CommentIdx)
    THEN [writes |-> <<>>, i |-> i, fault |-> FALSE]
    ELSE [writes |-> RecordWrites(row, i), i |-> i + 1, fault |-> FALSE]

\* One pass of the loop body, lines 37..68, on `row` with the counter at i:
\* what it writes, the counter afterwards, and whether it raised IndexError.
RowStep(row, i) ==
    IF ExclusionTestFaults(row)
    THEN [writes |-> <<>>, i |-> i, fault |-> TRUE]
    ELSE IF Excluded(row)
    THEN [writes |-> <<>>, i |-> i, fault |-> FALSE]
    ELSE IF IndexFault(row, CommentIdx)
    THEN [writes |-> <<Opener(i)>>, i |-> i, fault |-> TRUE]
    ELSE [writes |-> RecordWrites(row, i), i |-> i + 1, fault |-> FALSE]

----------------------------------------------------------------------------
(* The state of one run.                                                   *)

VARIABLES
    argv,            \* line 20: the command line, [bad, infile, outfile]
    infileReadable,  \* line 34: the file system lets the input path be opened
    outfileWritable, \* line 23: the file system lets the output path be created
    rows,            \* line 36: what csv.reader yields for the input file
    pc,              \* the statement main() is at
    options,         \* line 20: optparse's result
    outfileTouched,  \* line 23: the output path was created or truncated
    cfile,           \* lines 23..71: the strings written to the output, in order
    cfileState,      \* lines 23, 72: "unopened", "open" or "closed"
    readerState,     \* line 34: the input file's handle, "unopened", "open" or "closed"
    opens,           \* lines 23, 34: how many times each path was opened
    pos,             \* line 36: rows the reader has yielded
    i                \* lines 35, 68: the counter of emitted records

vars == <<argv, infileReadable, outfileWritable, rows, pc, options, outfileTouched,
          cfile, cfileState, readerState, opens, pos, i>>

env == <<argv, infileReadable, outfileWritable, rows>>

ArgvSet ==
    {[bad |-> FALSE, infile |-> a, outfile |-> b] :
        a \in {None, Given(InPath)}, b \in {None, Given(OutPath)}}
    \cup {[bad |-> TRUE, infile |-> Given(InPath), outfile |-> Given(OutPath)]}

\* The run gets as far as reading the input file.
ReachesInput ==
    /\ ~argv.bad /\ argv.infile # None /\ argv.outfile # None
    /\ infileReadable /\ outfileWritable

\* The content of the input file matters only to the runs that read it: the
\* others are explored with an empty one.
Init ==
    /\ argv \in ArgvSet
    /\ infileReadable \in BOOLEAN
    /\ outfileWritable \in BOOLEAN
    /\ rows \in SeqsUpTo(RowKinds, MaxRows)
    /\ (~ReachesInput => rows = <<>>)
    /\ pc = "parse"
    /\ options = [infile |-> None, outfile |-> None]
    /\ outfileTouched = FALSE
    /\ cfile = <<>>
    /\ cfileState = "unopened"
    /\ readerState = "unopened"
    /\ opens = [infile |-> 0, outfile |-> 0]
    /\ pos = 0
    /\ i = 0

\* An uncaught exception (or parser.error) ends the process.
Abort == pc' = "abort"

\* Lines 16..20: an option that is not given stays None; an argument optparse
\* does not know ends the run in parser.error.
ParseArgs ==
    /\ pc = "parse"
    /\ IF argv.bad
       THEN Abort /\ UNCHANGED options
       ELSE /\ options' = [infile |-> argv.infile, outfile |-> argv.outfile]
            /\ pc' = "open_out"
    /\ UNCHANGED <<env, outfileTouched, cfile, cfileState, readerState, opens, pos, i>>

\* Line 23: open(options.outfile, "wb") raises TypeError on None and IOError
\* on a path that cannot be created; otherwise the file is created or truncated.
OpenOutput ==
    /\ pc = "open_out"
    /\ IF options.outfile = None \/ ~outfileWritable
       THEN Abort /\ UNCHANGED <<outfileTouched, cfile, cfileState, opens>>
       ELSE /\ outfileTouched' = TRUE
            /\ cfile' = <<>>
            /\ cfileState' = "open"
            /\ opens' = [opens EXCEPT !.outfile = @ + 1]
            /\ pc' = "banner"
    /\ UNCHANGED <<env, options, readerState, pos, i>>

\* Lines 24..31: the argument is built first, and str + None raises TypeError.
WriteBanner ==
    /\ pc = "banner"
    /\ IF options.infile = None
       THEN Abort /\ UNCHANGED cfile
       ELSE /\ cfile' = Append(cfile, Banner(options.infile[1]))
            /\ pc' = "include"
    /\ UNCHANGED <<env, options, outfileTouched, cfileState, readerState, opens, pos, i>>

\* Line 32.
WriteInclude ==
    /\ pc = "include"
    /\ cfile' = Append(cfile, IncludeLine)
    /\ pc' = "decl"
    /\ UNCHANGED <<env, options, outfileTouched, cfileState, readerState, opens, pos, i>>

\* Line 33.
WriteDecl ==
    /\ pc = "decl"
    /\ cfile' = Append(cfile, DeclLine)
    /\ pc' = "open_in"
    /\ UNCHANGED <<env, options, outfileTouched, cfileState, readerState, opens, pos, i>>

\* Lines 34..35: open(options.infile, "rb") raises IOError on an unreadable path.
OpenInput ==
    /\ pc = "open_in"
    /\ IF ~infileReadable
       THEN Abort /\ UNCHANGED <<readerState, opens, i>>
       ELSE /\ readerState' = "open"
            /\ opens' = [opens EXCEPT !.infile = @ + 1]
            /\ i' = 0
            /\ pc' = "loop"
    /\ UNCHANGED <<env, options, outfileTouched, cfile, cfileState, pos>>

\* Lines 36..68: the reader yields the next row and the loop body runs on it.
ProcessRow ==
    /\ pc = "loop"
    /\ pos < Len(rows)
    /\ LET r == RowStep(rows[pos + 1], i)
       IN  /\ cfile' = cfile \o r.writes
           /\ i' = r.i
           /\ pc' = IF r.fault THEN "abort" ELSE "loop"
    /\ pos' = pos + 1
    /\ UNCHANGED <<env, options, outfileTouched, cfileState, readerState, opens>>

\* Line 70, reached when the reader is exhausted.
WriteSentinel ==
    /\ pc = "loop"
    /\ pos = Len(rows)
    /\ cfile' = Append(cfile, SentinelText)
    /\ pc' = "terminator"
    /\ UNCHANGED <<env, options, outfileTouched, cfileState, readerState, opens, pos, i>>

\* Line 71.
WriteTerminator ==
    /\ pc = "terminator"
    /\ cfile' = Append(cfile, TerminatorText)
    /\ pc' = "close"
    /\ UNCHANGED <<env, options, outfileTouched, cfileState, readerState, opens, pos, i>>

\* Line 72: cfile.close(); main() returns.  Nothing closes the input file.
CloseOutput ==
    /\ pc = "close"
    /\ cfileState' = "closed"
    /\ pc' = "done"
    /\ UNCHANGED <<env, options, outfileTouched, cfile, readerState, opens, pos, i>>

Next ==
    \/ ParseArgs
    \/ OpenOutput
    \/ WriteBanner
    \/ WriteInclude
    \/ WriteDecl
    \/ OpenInput
    \/ ProcessRow
    \/ WriteSentinel
    \/ WriteTerminator
    \/ CloseOutput

Spec == Init /\ [][Next]_vars

----------------------------------------------------------------------------
(* Reading the output back: the bytes of the file, its lines, and the      *)
(* value a data line carries.                                              *)

RECURSIVE Flatten(_)
Flatten(ws) == IF ws = <<>> THEN <<>> ELSE Head(ws) \o Flatten(Tail(ws))

\* The bytes of the output file.
Content == Flatten(cfile)

OccursAt(s, pat, p) ==
    /\ p + Len(pat) - 1 <= Len(s)
    /\ \A k \in 1..Len(pat) : s[p + k - 1] = pat[k]

Count(s, pat) == Cardinality({p \in 1..Len(s) : OccursAt(s, pat, p)})

StartsWith(s, pat) == OccursAt(s, pat, 1)

EndsWith(s, pat) == Len(pat) <= Len(s) /\ OccursAt(s, pat, Len(s) - Len(pat) + 1)

\* s split at its line breaks, from position `from` on; the text after the
\* last line break is the last element.
RECURSIVE Lines(_, _)
Lines(s, from) ==
    IF \E p \in from..Len(s) : s[p] = "\n"
    THEN LET p == CHOOSE p \in from..Len(s) :
                      s[p] = "\n" /\ \A q \in from..(p - 1) : s[q] # "\n"
         IN  <<SubSeq(s, from, p - 1)>> \o Lines(s, p + 1)
    ELSE <<SubSeq(s, from, Len(s))>>

\* What a data line holds between its two leading tabs and its first comma.
ValueOf(line) ==
    LET c == CHOOSE p \in 1..Len(line) :
                 line[p] = "," /\ \A q \in 1..(p - 1) : line[q] # ","
    IN  SubSeq(line, 3, c - 1)

IsDataLine(line) ==
    /\ StartsWith(line, <<"\t", "\t">>)
    /\ \E p \in 3..Len(line) : OccursAt(line, <<",", "\t", "\t", "\t", "/", "/", " ">>, p)

IsNameLine(line) == StartsWith(line, <<"\t", "\t", "\"">>) /\ EndsWith(line, <<"\"", ",", "\t", "/", "/", " ", "D", "e", "v", "i", "c", "e", " ", "N", "a", "m", "e">>)

IsCommentLine(line) == StartsWith(line, <<"\t", "\t", "/", "/">>)

\* The row is marked for exclusion: its first field starts with '#'.
IsHashRow(row) == Len(row) > 0 /\ Len(row[1]) > 0 /\ row[1][1] = "#"

NotHashRow(row) == ~IsHashRow(row)

\* The input with its '#'-rows deleted.
Survivors(rs) == SelectSeq(rs, NotHashRow)

\* The step just taken consumed a row that is not excluded and wrote its record.
EmittedRow == pos' = pos + 1 /\ pc' = "loop" /\ ~IsHashRow(rows[pos + 1])

\* What that step appended to the file, as bytes.
Delta == Flatten(SubSeq(cfile', Len(cfile) + 1, Len(cfile')))

\* The lines of what that step appended (a set of one element, to bind it).
DeltaLines == {Lines(d, 1) : d \in {Delta}}

\* No row before the one being consumed survived.
FirstSurvivor == \A k \in 1..pos : IsHashRow(rows[k])

----------------------------------------------------------------------------
(* C1 *)

\* C1: when every row has at least 23 fields and a non-empty first field, a
\* completed run has written as many record blocks (lines that open a record,
\* the {0} sentinel not counted) as the input has rows not starting with '#'.
C1_RecordCount ==
    (pc = "done" /\ \A k \in DOMAIN rows : Len(rows[k]) >= 23 /\ Len(rows[k][1]) > 0)
        => Count(Content, <<"\n", "\t", "{", "\n">>) + Count(Content, <<"\n", "\t", "{", "{", "\n">>)
               = Cardinality({k \in DOMAIN rows : rows[k][1][1] # "#"})

C1_Witness ==
    /\ pc = "done"
    /\ \A k \in DOMAIN rows : Len(rows[k]) >= 23 /\ Len(rows[k][1]) > 0
    /\ Cardinality({k \in DOMAIN rows : rows[k][1][1] # "#"}) = 2
    /\ \E k \in DOMAIN rows : rows[k][1][1] = "#"

----------------------------------------------------------------------------
(* C2 *)

\* C2 as stated: a completed run's output ends with the sentinel ',\n\t{0}',
\* a line break and the terminator ';', nothing else in between, and the
\* output is closed.
C2_SentinelThenTerminator ==
    pc = "done" => EndsWith(Content, <<",", "\n", "\t", "{", "0", "}", "\n", ";", "\n">>) /\ cfileState = "closed"

\* C2 amended: a completed run's output ends with the sentinel ',\n\t{0}', the
\* brace that closes the array, a line break and the terminator ';', and the
\* output is closed; the last two writes are those of lines 70 and 71.
C2_SentinelBraceTerminator ==
    pc = "done" =>
        /\ EndsWith(Content, <<",", "\n", "\t", "{", "0", "}", "}", "\n", ";", "\n">>)
        /\ Len(cfile) >= 2
        /\ cfile[Len(cfile) - 1] = <<",", "\n", "\t", "{", "0", "}", "}", "\n">>
        /\ cfile[Len(cfile)] = <<";", "\n">>
        /\ cfileState = "closed"

C2_Witness == pc = "done" /\ i >= 1 /\ cfileState = "closed"

----------------------------------------------------------------------------
(* C3 *)

\* The columns (counted from 1) the claim says the 21 data lines carry.
ClaimedColumns == [k \in 1..21 |-> k + 1]

\* The columns (counted from 1) they carry: 2, 3, 4 and 6 to 23.
EmittedColumns == [k \in 1..21 |-> IF k <= 3 THEN k + 1 ELSE k + 2]

\* The record just written is a name line followed by exactly 21 data lines and
\* the closing brace, data line k carrying column cols[k] of the row.
DataLinesCarry(cols) ==
    \A L \in DeltaLines, row \in {rows[pos + 1]} :
        \E n \in 1..Len(L) :
            /\ IsNameLine(L[n])
            /\ \A m \in 1..(n - 1) : ~IsNameLine(L[m]) /\ ~IsDataLine(L[m])
            /\ Len(L) = n + 22
            /\ L[Len(L)] = <<"\t", "}">>
            /\ \A k \in 1..21 : IsDataLine(L[n + k]) /\ ValueOf(L[n + k]) = row[cols[k]]

\* C3 as stated: every record block is the name line followed by exactly 21
\* data lines, one for each of columns 2 to 22 in increasing order; column 23
\* is no data line.
C3_Columns2To22 == [][EmittedRow => DataLinesCarry(ClaimedColumns)]_vars

\* C3 amended: every record block is the name line followed by exactly 21 data
\* lines, one for each of columns 2, 3, 4 and 6 to 23 in increasing order,
\* whatever the row holds; column 5 is not written, and column 23 (index 22),
\* the column of the leading comment, is the last data line.
C3_Columns2To4And6To23 == [][EmittedRow => DataLinesCarry(EmittedColumns)]_vars

C3_Witness == pc = "loop" /\ pos = 2 /\ i = 2 /\ rows[1] = RowA /\ rows[2] = RowB

----------------------------------------------------------------------------
(* C4 *)

\* C4: a record block of a row whose column 23 (index 22) is empty has no
\* comment line; otherwise it has exactly one, right after the opening brace
\* and before the name line, and its text is that column.
C4_LeadingComment ==
    [][EmittedRow =>
        \A L \in DeltaLines, ann \in {rows[pos + 1][23]} :
        LET o == IF L[1] = <<",">> THEN 2 ELSE 1
            n == Cardinality({m \in 1..Len(L) : IsCommentLine(L[m])})
        IN  /\ StartsWith(L[o], <<"\t", "{">>)
            /\ IF ann = <<>>
               THEN n = 0 /\ IsNameLine(L[o + 1])
               ELSE n = 1 /\ L[o + 1] = <<"\t", "\t", "/", "/", " ">> \o ann /\ IsNameLine(L[o + 2])]_vars

C4_Witness == pc = "loop" /\ pos = 2 /\ i = 2 /\ rows[1] = RowB /\ rows[2] = RowA

----------------------------------------------------------------------------
(* C5 *)

\* The record just written starts on a fresh line with the line `first` when
\* it is the first record, starts with ',\n' and the line '\t{' when it is a
\* later one, and ends with '\t}' and nothing after it.
RecordDelimitedBy(first) ==
    \A L \in DeltaLines :
        /\ IF FirstSurvivor
           THEN L[1] = first /\ EndsWith(Flatten(cfile), <<"\n">>)
           ELSE L[1] = <<",">> /\ L[2] = <<"\t", "{">>
        /\ L[Len(L)] = <<"\t", "}">>

\* C5 as stated: the first emitted record is opened with a single '{' on its
\* own line, every later one is preceded by ',\n' and opened with a single
\* '{', and each is closed with '}' and no trailing comma.
C5_SingleBrace == [][EmittedRow => RecordDelimitedBy(<<"\t", "{">>)]_vars

\* C5 amended: the first emitted record is opened with the line '\t{{' (the
\* brace that opens the array and the brace that opens the record), every
\* later one is preceded by ',\n' and opened with a single '{', and each is
\* closed with '}' and no trailing comma.
C5_DoubleBraceFirst == [][EmittedRow => RecordDelimitedBy(<<"\t", "{", "{">>)]_vars

C5_Witness == pc = "loop" /\ pos = 3 /\ i = 2 /\ IsHashRow(rows[1])

----------------------------------------------------------------------------
(* C6 *)

\* Lines 36..71 run on the rows rs from row k on, as a function: what is
\* written after `out`, and whether the run was cut short by IndexError.
RECURSIVE RunFrom(_, _, _, _)
RunFrom(rs, k, out, n) ==
    IF k > Len(rs)
    THEN [cfile |-> out \o <<SentinelText, TerminatorText>>, fault |-> FALSE]
    ELSE LET r == RowStep(rs[k], n)
         IN  IF r.fault
             THEN [cfile |-> out \o r.writes, fault |-> TRUE]
             ELSE RunFrom(rs, k + 1, out \o r.writes, r.i)

\* C6: a run that read its input has ended, normally or not, exactly as the
\* run on the same input with its '#'-rows deleted ends: same output, same
\* kind of end.
C6_HashRowsContributeNothing ==
    (pc \in {"done", "abort"} /\ readerState = "open") =>
        LET r == RunFrom(Survivors(rows), 1, SubSeq(cfile, 1, 3), 0)
        IN  cfile = r.cfile /\ (pc = "abort") = r.fault

C6_Witness ==
    /\ pc = "done"
    /\ Len(rows) = 3
    /\ ~IsHashRow(rows[1]) /\ IsHashRow(rows[2]) /\ ~IsHashRow(rows[3])

----------------------------------------------------------------------------
(* C7 *)

\* The text before the first record.
Header == Banner(InPath) \o IncludeLine \o DeclLine

\* C7: a completed run on an input without surviving rows leaves the banner,
\* the include line and the declaration header followed by the sentinel and the
\* terminator, with no record block, every brace matched and no separator
\* before the sentinel.
C7_ZeroRowsWellFormed ==
    (pc = "done" /\ \A k \in DOMAIN rows : IsHashRow(rows[k])) =>
        LET body == SubSeq(Content, Len(Header) + 1, Len(Content))
        IN  /\ StartsWith(Content, Header)
            /\ Count(body, <<"\n", "\t", "{", "\n">>) + Count(body, <<"\n", "\t", "{", "{", "\n">>) = 0
            /\ Count(body, <<"{">>) = Count(body, <<"}">>)
            /\ ~StartsWith(body, <<",">>)
            /\ EndsWith(body, <<"{", "0", "}", "\n", ";", "\n">>)

----------------------------------------------------------------------------
(* C8 *)

\* C8: a run whose command line lacks an option (or is malformed) never opens,
\* creates or truncates a file.
C8_NoFileTouchedOnArgumentError ==
    (argv.bad \/ argv.infile = None \/ argv.outfile = None) =>
        /\ ~outfileTouched
        /\ opens.infile = 0 /\ opens.outfile = 0
        /\ cfileState = "unopened" /\ readerState = "unopened"

----------------------------------------------------------------------------
(* C9 *)

\* C9 as stated: a run on an input with a row of fewer than 23 fields never
\* completes, wherever the row is and whether or not it starts with '#'.
C9_AnyShortRowAborts ==
    (\E k \in DOMAIN rows : Len(rows[k]) < 23) => pc # "done"

\* C9 amended: once the reader has yielded a row of fewer than 23 fields whose
\* first field does not start with '#', the run has aborted (so it never
\* completes); a '#'-row is skipped whatever its length.
C9_ShortSurvivingRowAborts ==
    \A k \in DOMAIN rows :
        (Len(rows[k]) < 23 /\ ~IsHashRow(rows[k]) /\ pos >= k) => pc = "abort"

C9_Witness ==
    pc = "abort" /\ pos = 2 /\ rows[1] = RowHashShort /\ rows[2] = RowShort

----------------------------------------------------------------------------
(* C10 *)

\* C10: when the run has ended, normally or not, each file was opened at most
\* once and no handle it opened is left unclosed.
C10_HandlesReleased ==
    pc \in {"done", "abort"} =>
        /\ opens.infile <= 1 /\ opens.outfile <= 1
        /\ cfileState # "open"
        /\ readerState # "open"

====
